---------------------------- MODULE Spec2Model ----------------------------
(***************************************************************************)
(* A model of blts-sqlite-perf: the driver's dispatch (src/src/cli.c), the  *)
(* eleven scenario functions, the database session wrappers, the row       *)
(* generator and the statement builder (src/src/blts-sqlite-perf.c).        *)
(*                                                                         *)
(* Strings are TLA+ strings; the printf family is modelled by walking the   *)
(* format string character by character.  The SQL engine (sqlite3) is an   *)
(* external collaborator: it is modelled by the effect of each statement   *)
(* the program sends, and every engine call may fail.                       *)
(***************************************************************************)
EXTENDS Integers, Sequences, FiniteSets, TLC

VARIABLES
    phase,      \* "idle" | "running" | "returned" | "aborted" (assert fired)
    rng,        \* the pseudorandom source: its seed and the values drawn so far
    db_file,    \* params->db_file, the -f argument
    file,       \* the file system entry named db_file: "absent" or its content
    test_num,   \* exec_test's test_num
    tag_base,   \* exec_test's tag_base
    prog,       \* the statements of the running scenario function, in order
    pc,         \* index in prog of the next statement
    retv,       \* the scenario function's retv
    rc,         \* exec_test's return value ("none" until it returns)
    db,         \* the sqlite3* handle of the scenario: "NULL" | "open" | "failed" | "closed"
    conn,       \* what the open connection sees: tables, indexes, open transaction
    stmts,      \* prepared statements not yet finalized
    trace,      \* the calls the scenario made so far, each with its engine calls
    samples,    \* what blts_report_extended_result recorded
    call,       \* input of the pure function under check (SpecGen, SpecFmt)
    result      \* its output

mainVars == <<phase, rng, db_file, file, test_num, tag_base, prog, pc, retv, rc,
              db, conn, stmts, trace, samples>>
pureVars == <<call, result>>
vars == <<phase, rng, db_file, file, test_num, tag_base, prog, pc, retv, rc,
          db, conn, stmts, trace, samples, call, result>>

----------------------------------------------------------------------------
(* Bounds of the model *)

\* Row and statement counts of the driver (1000 .. 25000) are scaled to 1..MaxCount.
MaxCount == 2
\* Rows asked of generate_test_data when it is checked on its own.
MaxGen == 3

----------------------------------------------------------------------------
(* Program constants *)

SQL_MAX_quarter == 8 * 8

SQL_MAX == 256
TEST_DATA_STRING_MAX == 256
FULL_TAG_MAX == 256
EXIT_SUCCESS == 0
EXIT_FAILURE == 1
EINVAL == 22
RANDOM_MODULUS == 1000000

----------------------------------------------------------------------------
(* The printf family *)

Min(a, b) == IF a < b THEN a ELSE b

DecDigit(d) == SubSeq("0123456789", d + 1, d + 1)

RECURSIVE DecNat(_)
DecNat(n) == IF n < 10 THEN DecDigit(n) ELSE DecNat(n \div 10) \o DecDigit(n % 10)

\* %d
Dec(n) == IF n < 0 THEN "-" \o DecNat(0 - n) ELSE DecNat(n)

\* The text a format produces from its arguments: %d, %s and %% are the
\* conversions the program uses.
RECURSIVE Formatted(_, _)
Formatted(format, args) ==
    IF format = "" THEN ""
    ELSE IF Head(format) = "%" /\ Len(format) >= 2
    THEN LET conv == Head(Tail(format))
             rest == Tail(Tail(format))
         IN  IF conv = "%" THEN "%" \o Formatted(rest, args)
             ELSE IF conv = "s" THEN Head(args) \o Formatted(rest, Tail(args))
             ELSE Dec(Head(args)) \o Formatted(rest, Tail(args))
    ELSE Head(format) \o Formatted(Tail(format), args)

\* snprintf(str, size, format, ...): str holds at most size - 1 characters, the
\* return value is the length the whole text would have.
snprintf(size, format, args) ==
    LET text == Formatted(format, args)
    IN  [str |-> SubSeq(text, 1, Min(Len(text), size - 1)), n_written |-> Len(text)]

\* sql_sprintf: vsnprintf into a buffer of SQL_MAX, then assert(n_written < SQL_MAX)
sql_sprintf(format, args) ==
    LET r == snprintf(SQL_MAX, format, args)
    IN  [str |-> r.str, n_written |-> r.n_written, assert_ok |-> r.n_written < SQL_MAX]

----------------------------------------------------------------------------
(* generate_test_data *)

digits == <<"zero", "one", "two", "three", "four", "five", "six", "seven", "eight", "nine">>

\* digits[d] of the C array (0-based)
Digit(d) == digits[d + 1]

test_data_row_swappedDigits(r) ==
    LET number == r % RANDOM_MODULUS
        s == snprintf(TEST_DATA_STRING_MAX, "%s %s %s %s %s %s",
                 << Digit((number \div 100000) % 10),
                    Digit((number \div 10000) % 10),
                    Digit((number \div 1000) % 10),
                    Digit((number \div 100) % 10),
                    Digit((number \div 1) % 10),
                    Digit((number \div 10) % 10) >>)
    IN  [number |-> number, string |-> s.str,
         assert_ok |-> s.n_written < TEST_DATA_STRING_MAX]

\* One iteration of generate_test_data's loop, random() having returned r.
test_data_row(r) ==
    LET number == r % RANDOM_MODULUS
        s == snprintf(TEST_DATA_STRING_MAX, "%s %s %s %s %s %s",
                 << Digit((number \div 100000) % 10),
                    Digit((number \div 10000) % 10),
                    Digit((number \div 1000) % 10),
                    Digit((number \div 100) % 10),
                    Digit((number \div 10) % 10),
                    Digit((number \div 1) % 10) >>)
    IN  [number |-> number, string |-> s.str,
         assert_ok |-> s.n_written < TEST_DATA_STRING_MAX]

\* generate_test_data(n_rows), rnd being the values random() returns, in order.
generate_test_data(n_rows, rnd) == [i \in 1..n_rows |-> test_data_row(rnd[i])]

DataAssertsOk(data) == \A i \in 1..Len(data) : data[i].assert_ok

----------------------------------------------------------------------------
(* Reading a statement back: what the engine's parser does with the text *)

IsDigit(ch) == ch \in {"0", "1", "2", "3", "4", "5", "6", "7", "8", "9"}

DigitValue(ch) == CHOOSE d \in 0..9 : DecDigit(d) = ch

\* Length of the longest prefix of text made of digits.
RECURSIVE DigitRun(_)
DigitRun(text) ==
    IF text = "" \/ ~IsDigit(Head(text)) THEN 0 ELSE 1 + DigitRun(Tail(text))

RECURSIVE ParseNat(_, _)
ParseNat(text, acc) ==
    IF text = "" THEN acc ELSE ParseNat(Tail(text), 10 * acc + DigitValue(Head(text)))

\* Length of the longest prefix of text that does not hold the character stop
\* (the whole text when stop is "").
RECURSIVE RunUntil(_, _)
RunUntil(text, stop) ==
    IF text = "" \/ Head(text) = stop THEN 0 ELSE 1 + RunUntil(Tail(text), stop)

Drop(text, n) == SubSeq(text, n + 1, Len(text))

NoMatch == [ok |-> FALSE, args |-> <<>>]

\* Scan(format, text): the arguments from which format produces text.
RECURSIVE Scan(_, _)
Scan(format, text) ==
    IF format = "" THEN [ok |-> text = "", args |-> <<>>]
    ELSE IF Head(format) = "%" /\ Len(format) >= 2
    THEN LET conv == Head(Tail(format))
             rest == Tail(Tail(format))
         IN  IF conv = "%"
             THEN IF text # "" /\ Head(text) = "%" THEN Scan(rest, Tail(text)) ELSE NoMatch
             ELSE IF conv = "d"
             THEN LET n == DigitRun(text)
                      r == Scan(rest, Drop(text, n))
                  IN  IF n = 0 \/ ~r.ok THEN NoMatch
                      ELSE [ok |-> TRUE,
                            args |-> <<ParseNat(SubSeq(text, 1, n), 0)>> \o r.args]
             ELSE LET n == RunUntil(text, IF rest = "" THEN "" ELSE Head(rest))
                      r == Scan(rest, Drop(text, n))
                  IN  IF ~r.ok THEN NoMatch
                      ELSE [ok |-> TRUE, args |-> <<SubSeq(text, 1, n)>> \o r.args]
    ELSE IF text # "" /\ Head(text) = Head(format) THEN Scan(Tail(format), Tail(text))
    ELSE NoMatch

\* c LIKE '%pattern%': pattern occurs in text.
Contains(text, pattern) ==
    \E i \in 1..(Len(text) - Len(pattern) + 1) :
        SubSeq(text, i, i + Len(pattern) - 1) = pattern

----------------------------------------------------------------------------
(* The SQL engine as the program uses it.  A connection is                   *)
(*   tables  : table name -> its rows <<[a, b, c], ...>> in insertion order  *)
(*   indexes : the indexes, [name, table, column]                            *)
(*   txn     : a transaction opened by BEGIN is open                         *)
(*   saved   : what is committed, i.e. what the database file holds          *)

EmptyDb == [tables |-> <<>>, indexes |-> {}]

NewConn(content) ==
    [tables |-> content.tables, indexes |-> content.indexes, txn |-> FALSE,
     saved |-> content]

NoConn == NewConn(EmptyDb)

HasTable(c, t) == t \in DOMAIN c.tables

SetRows(c, t, rows) ==
    [c EXCEPT !.tables = [n \in (DOMAIN c.tables) \cup {t} |->
                              IF n = t THEN rows ELSE c.tables[n]]]

\* Outside a transaction every statement commits on its own.
Autocommit(c) ==
    IF c.txn THEN c
    ELSE [c EXCEPT !.saved = [tables |-> c.tables, indexes |-> c.indexes]]

SqlOk(c) == [ok |-> TRUE, conn |-> Autocommit(c)]
SqlError(c) == [ok |-> FALSE, conn |-> c]

\* A statement on table t that rewrites its rows.
OnTable(c, t, rows) == IF HasTable(c, t) THEN SqlOk(SetRows(c, t, rows)) ELSE SqlError(c)

Swapped(rows) == [i \in 1..Len(rows) |-> [a |-> rows[i].b, b |-> rows[i].a, c |-> rows[i].c]]

\* The rows DELETE ... WHERE a > lo AND a < hi leaves.
RowsOutside(rows, lo, hi) == SelectSeq(rows, LAMBDA r : ~(r.a > lo /\ r.a < hi))

\* The rows DELETE ... WHERE c LIKE '%pattern%' leaves.
RowsWithout(rows, pattern) == SelectSeq(rows, LAMBDA r : ~Contains(r.c, pattern))

CreateTable(c, t) ==
    IF HasTable(c, t) THEN SqlError(c) ELSE SqlOk(SetRows(c, t, <<>>))

CreateIndex(c, spec) ==
    LET m == Scan("%s on %s(%s)", spec)
    IN  IF ~m.ok \/ ~HasTable(c, m.args[2]) \/ m.args[3] \notin {"a", "b", "c"}
           \/ \E x \in c.indexes : x.name = m.args[1]
        THEN SqlError(c)
        ELSE SqlOk([c EXCEPT !.indexes = @ \cup
                       {[name |-> m.args[1], table |-> m.args[2], column |-> m.args[3]]}])

DropTable(c, t) ==
    IF ~HasTable(c, t) THEN SqlError(c)
    ELSE SqlOk([c EXCEPT !.tables = [n \in (DOMAIN c.tables) \ {t} |-> c.tables[n]],
                         !.indexes = {x \in @ : x.table # t}])

\* The effect of one statement that the engine accepts or rejects on its own
\* grounds (a missing table, BEGIN inside a transaction, unknown text).
Statement(c, sql) ==
    LET createTable == Scan("CREATE TABLE %s (a INTEGER, b INTEGER, c VARCHAR(100));", sql)
        createIndex == Scan("CREATE INDEX %s;", sql)
        insert      == Scan("INSERT INTO %s VALUES(%d, %d, '%s');", sql)
        selectRange == Scan("SELECT count(*), avg(b) FROM %s WHERE b >= %d AND b < %d;", sql)
        selectLike  == Scan("SELECT count(*), avg(b) FROM %s WHERE c LIKE '%%%s%%';", sql)
        updateRange == Scan("UPDATE %s SET b=b*2 WHERE a >= %d AND a < %d;", sql)
        updateText  == Scan("UPDATE %s SET c='%s' WHERE a = %d;", sql)
        insertSwap  == Scan("INSERT INTO %s SELECT b, a, c FROM %s", sql)
        insertAll   == Scan("INSERT INTO %s SELECT * FROM %s", sql)
        deleteRange == Scan("DELETE FROM %s WHERE a > %d AND a < %d;", sql)
        deleteRangeA == Scan("DELETE FROM %s WHERE a > %d AND A < %d;", sql)
        deleteLike  == Scan("DELETE FROM %s WHERE c LIKE '%%%s%%';", sql)
        deleteAll   == Scan("DELETE FROM %s;", sql)
        dropTable   == Scan("DROP TABLE %s", sql)
    IN  IF sql = "BEGIN" THEN (IF c.txn THEN SqlError(c) ELSE SqlOk([c EXCEPT !.txn = TRUE]))
        ELSE IF sql = "COMMIT"
        THEN (IF c.txn THEN SqlOk([c EXCEPT !.txn = FALSE]) ELSE SqlError(c))
        ELSE IF createTable.ok THEN CreateTable(c, createTable.args[1])
        ELSE IF createIndex.ok THEN CreateIndex(c, createIndex.args[1])
        ELSE IF insert.ok
        THEN LET t == insert.args[1]
             IN  IF ~HasTable(c, t) THEN SqlError(c)
                 ELSE OnTable(c, t, Append(c.tables[t],
                          [a |-> insert.args[2], b |-> insert.args[3], c |-> insert.args[4]]))
        ELSE IF selectRange.ok
        THEN (IF HasTable(c, selectRange.args[1]) THEN SqlOk(c) ELSE SqlError(c))
        ELSE IF selectLike.ok
        THEN (IF HasTable(c, selectLike.args[1]) THEN SqlOk(c) ELSE SqlError(c))
        ELSE IF updateRange.ok
        THEN LET t == updateRange.args[1]
             IN  IF ~HasTable(c, t) THEN SqlError(c)
                 ELSE OnTable(c, t, [i \in 1..Len(c.tables[t]) |->
                          IF c.tables[t][i].a >= updateRange.args[2]
                             /\ c.tables[t][i].a < updateRange.args[3]
                          THEN [c.tables[t][i] EXCEPT !.b = @ * 2]
                          ELSE c.tables[t][i]])
        ELSE IF updateText.ok
        THEN LET t == updateText.args[1]
             IN  IF ~HasTable(c, t) THEN SqlError(c)
                 ELSE OnTable(c, t, [i \in 1..Len(c.tables[t]) |->
                          IF c.tables[t][i].a = updateText.args[3]
                          THEN [c.tables[t][i] EXCEPT !.c = updateText.args[2]]
                          ELSE c.tables[t][i]])
        ELSE IF insertSwap.ok
        THEN LET t == insertSwap.args[1]
                 u == insertSwap.args[2]
             IN  IF ~HasTable(c, t) \/ ~HasTable(c, u) THEN SqlError(c)
                 ELSE OnTable(c, t, c.tables[t] \o Swapped(c.tables[u]))
        ELSE IF insertAll.ok
        THEN LET t == insertAll.args[1]
                 u == insertAll.args[2]
             IN  IF ~HasTable(c, t) \/ ~HasTable(c, u) THEN SqlError(c)
                 ELSE OnTable(c, t, c.tables[t] \o c.tables[u])
        ELSE IF deleteRange.ok \/ deleteRangeA.ok
        THEN LET m == IF deleteRange.ok THEN deleteRange ELSE deleteRangeA
                 t == m.args[1]
             IN  IF ~HasTable(c, t) THEN SqlError(c)
                 ELSE OnTable(c, t, RowsOutside(c.tables[t], m.args[2], m.args[3]))
        ELSE IF deleteLike.ok
        THEN LET t == deleteLike.args[1]
             IN  IF ~HasTable(c, t) THEN SqlError(c)
                 ELSE OnTable(c, t, RowsWithout(c.tables[t], deleteLike.args[2]))
        ELSE IF deleteAll.ok THEN OnTable(c, deleteAll.args[1], <<>>)
        ELSE IF dropTable.ok THEN DropTable(c, dropTable.args[1])
        ELSE SqlError(c)

\* sqlite3_exec(db, sql, ...): fault is an error of the engine's own (I/O, memory).
sqlite3_exec(c, sql, fault) == IF fault THEN SqlError(c) ELSE Statement(c, sql)

\* sqlite3_step of "INSERT INTO name VALUES(?1, ?2, ?3);" with its three bindings.
sqlite3_step(c, name, a, b, text, fault) ==
    IF fault \/ ~HasTable(c, name) THEN SqlError(c)
    ELSE OnTable(c, name, Append(c.tables[name], [a |-> a, b |-> b, c |-> text]))

----------------------------------------------------------------------------
(* The database session wrappers.  Each returns                              *)
(*   ok : its bool result, conn : the connection after it,                   *)
(*   eng : the engine calls it made, in order,                               *)
(*   open_stmts : the prepared statements it left unfinalized,               *)
(*   assert_ok : no assert of sql_sprintf / generate_test_data fired.        *)

create_index_sql(spec) == sql_sprintf("CREATE INDEX %s;", <<spec>>)

create_table_sql(name) ==
    sql_sprintf("CREATE TABLE %s (a INTEGER, b INTEGER, c VARCHAR(100));", <<name>>)

seed_insert_sql(name) == sql_sprintf("INSERT INTO %s VALUES(?1, ?2, ?3);", <<name>>)

EngExec(sql, ok) == [call |-> "sqlite3_exec", sql |-> sql, ok |-> ok]

db_exec_(c, sql, fault) ==
    LET r == sqlite3_exec(c, sql, fault)
    IN  [ok |-> r.ok, conn |-> r.conn, eng |-> <<EngExec(sql, r.ok)>>,
         open_stmts |-> 0, assert_ok |-> TRUE]

db_begin_transaction_(c, fault) == db_exec_(c, "BEGIN", fault)

db_commit_transaction_(c, fault) == db_exec_(c, "COMMIT", fault)

db_create_index_(c, spec, fault) ==
    LET sql == create_index_sql(spec)
    IN  [db_exec_(c, sql.str, fault) EXCEPT !.assert_ok = sql.assert_ok]

\* The seeding loop of db_create_table_, from row i (0-based) on; failAt is the
\* row whose sqlite3_step fails by a fault of the engine, or -1.
RECURSIVE SeedLoop(_, _, _, _, _)
SeedLoop(c, name, data, i, failAt) ==
    IF i >= Len(data) THEN [ok |-> TRUE, conn |-> c, eng |-> <<>>]
    ELSE LET r == sqlite3_step(c, name, i, data[i + 1].number, data[i + 1].string,
                               failAt = i)
             e == [call |-> "sqlite3_step", sql |-> name, ok |-> r.ok, a |-> i]
         IN  IF ~r.ok THEN [ok |-> FALSE, conn |-> r.conn, eng |-> <<e>>]
             ELSE LET rest == SeedLoop(r.conn, name, data, i + 1, failAt)
                  IN  [ok |-> rest.ok, conn |-> rest.conn, eng |-> <<e>> \o rest.eng]

\* Statements left unfinalized when db_create_table_ returns: its fail: label,
\* which every path reaches, calls sqlite3_finalize(stmt).
LeftOpen_onlyOnSuccess(prepared, ok) == IF prepared /\ ~ok THEN 1 ELSE 0

LeftOpen(prepared, ok) == 0

\* The fail: label of db_create_table_: sqlite3_finalize(stmt); free(data).
Finalize(prepared) == [call |-> "sqlite3_finalize", sql |-> "", ok |-> TRUE, stmt |-> prepared]

\* Engine calls of db_create_table_ that can fail by a fault of the engine:
\* 1 CREATE TABLE, 2 BEGIN, 3 prepare, 4 .. n_rows + 3 the steps, n_rows + 4 COMMIT;
\* 0 is no fault.
CreateTableFaults(n_rows) == IF n_rows = 0 THEN 0..1 ELSE 0..(n_rows + 4)

\* retv, after the fail: label.
CreateTableReturn(ok, c, eng, prepared, asserts) ==
    [ok |-> ok, conn |-> c, eng |-> eng \o <<Finalize(prepared)>>,
     open_stmts |-> LeftOpen(prepared, ok), assert_ok |-> asserts]

\* if (!db_exec_(db, "COMMIT", caller)) goto fail; retv = true;
CreateTableCommitted(commit, eng, asserts) ==
    CreateTableReturn(commit.ok, commit.conn, eng \o commit.eng, TRUE, asserts)

CreateTableSeeded_noCommit(seed, eng, n_rows, fault, asserts) ==
    CreateTableReturn(seed.ok, seed.conn, eng \o seed.eng, TRUE, asserts)

\* After the seeding loop.
CreateTableSeeded(seed, eng, n_rows, fault, asserts) ==
    IF ~seed.ok THEN CreateTableReturn(FALSE, seed.conn, eng \o seed.eng, TRUE, asserts)
    ELSE CreateTableCommitted(db_exec_(seed.conn, "COMMIT", fault = n_rows + 4),
                              eng \o seed.eng, asserts)

\* sqlite3_prepare_v2 of the insert, then the loop.
CreateTablePrepare(c, eng, name, data, seed_sql, fault, asserts) ==
    IF fault = 3 \/ ~HasTable(c, name)
    THEN CreateTableReturn(FALSE, c,
             eng \o <<[call |-> "sqlite3_prepare_v2", sql |-> seed_sql, ok |-> FALSE]>>,
             FALSE, asserts)
    ELSE CreateTableSeeded(SeedLoop(c, name, data, 0, fault - 4),
             eng \o <<[call |-> "sqlite3_prepare_v2", sql |-> seed_sql, ok |-> TRUE]>>,
             Len(data), fault, asserts)

\* if (!db_exec_(db, "BEGIN", caller)) goto fail;
CreateTableBegun(begin, eng, name, data, seed_sql, fault, asserts) ==
    IF ~begin.ok THEN CreateTableReturn(FALSE, begin.conn, eng \o begin.eng, FALSE, asserts)
    ELSE CreateTablePrepare(begin.conn, eng \o begin.eng, name, data, seed_sql, fault,
                            asserts)

\* After the CREATE TABLE: if (n_rows != 0) seed the table.
CreateTableCreated(create, name, data, seed_sql, fault, asserts) ==
    IF ~create.ok THEN CreateTableReturn(FALSE, create.conn, create.eng, FALSE, asserts)
    ELSE IF Len(data) = 0
    THEN CreateTableReturn(TRUE, create.conn, create.eng, FALSE, asserts)
    ELSE CreateTableBegun(db_exec_(create.conn, "BEGIN", fault = 2), create.eng, name, data,
                          seed_sql.str, fault, asserts /\ seed_sql.assert_ok)

CreateTableSql(data, create_sql, c, name, fault) ==
    CreateTableCreated(db_exec_(c, create_sql.str, fault = 1), name, data,
                       seed_insert_sql(name), fault,
                       DataAssertsOk(data) /\ create_sql.assert_ok)

db_create_table_(c, name, n_rows, rnd, fault) ==
    CreateTableSql(generate_test_data(n_rows, rnd), create_table_sql(name), c, name, fault)

----------------------------------------------------------------------------
(* The scenario functions.  A scenario is the sequence of its calls; a call  *)
(* that fails jumps to the fail: label, the db_close before the return.      *)

Call(op, args) == [op |-> op, args |-> args]

\* The statements the scenario functions and the wrappers build with
\* sql_sprintf; i is the loop index of the C code (0-based).
insert_sql(i, row) ==
    sql_sprintf("INSERT INTO t1 VALUES(%d, %d, '%s');", <<i, row.number, row.string>>)

select_sql(i) ==
    sql_sprintf("SELECT count(*), avg(b) FROM t1 WHERE b >= %d AND b < %d;",
                <<i * 100, 1000 + i * 100>>)

select_compare_strings_sql(i) ==
    sql_sprintf("SELECT count(*), avg(b) FROM t1 WHERE c LIKE '%%%s %s %s%%';",
                <<Digit((i \div 100) % 10), Digit((i \div 10) % 10), Digit((i \div 1) % 10)>>)

update_sql(i) ==
    sql_sprintf("UPDATE t1 SET b=b*2 WHERE a >= %d AND a < %d;", <<i * 10, (i + 1) * 10>>)

update_strings_sql(i, row) ==
    sql_sprintf("UPDATE t1 SET c='%s' WHERE a = %d;", <<row.string, i>>)

Scenario(asserts, drawn, dbf, tag, body) ==
    [assert_ok |-> asserts,
     drawn |-> drawn,
     prog |-> <<Call("db_open_truncate", <<dbf>>)>> \o body \o
              <<Call("timing_stop", <<>>),
                Call("report_extended_result", <<tag, "elapsed", "s">>),
                Call("retv = EXIT_SUCCESS", <<>>),
                Call("db_close", <<>>),
                Call("return", <<>>)>>]

When(cond, calls) == IF cond THEN calls ELSE <<>>

Execs(sqls) == [i \in 1..Len(sqls) |-> Call("db_exec", <<sqls[i].str>>)]

SqlAssertsOk(sqls) == \A i \in 1..Len(sqls) : sqls[i].assert_ok

test_insert_commitAlways(tag, dbf, in_transaction, with_index, n_rows, rnd) ==
    LET data == generate_test_data(n_rows, rnd)
        inserts == [i \in 1..n_rows |-> insert_sql(i - 1, data[i])]
    IN  Scenario(DataAssertsOk(data) /\ SqlAssertsOk(inserts), n_rows, dbf, tag,
            <<Call("timing_start", <<>>),
              Call("db_create_table", <<"t1", 0>>)>>
            \o When(with_index, <<Call("db_create_index", <<"i1 on t1(c)">>)>>)
            \o When(in_transaction, <<Call("db_begin_transaction", <<>>)>>)
            \o Execs(inserts)
            \o <<Call("db_commit_transaction", <<>>)>>)

test_insert(tag, dbf, in_transaction, with_index, n_rows, rnd) ==
    LET data == generate_test_data(n_rows, rnd)
        inserts == [i \in 1..n_rows |-> insert_sql(i - 1, data[i])]
    IN  Scenario(DataAssertsOk(data) /\ SqlAssertsOk(inserts), n_rows, dbf, tag,
            <<Call("timing_start", <<>>),
              Call("db_create_table", <<"t1", 0>>)>>
            \o When(with_index, <<Call("db_create_index", <<"i1 on t1(c)">>)>>)
            \o When(in_transaction, <<Call("db_begin_transaction", <<>>)>>)
            \o Execs(inserts)
            \o When(in_transaction, <<Call("db_commit_transaction", <<>>)>>))

test_select(tag, dbf, table_size, with_index, n_selects) ==
    LET selects == [i \in 1..n_selects |-> select_sql(i - 1)]
    IN  Scenario(SqlAssertsOk(selects), 0, dbf, tag,
            <<Call("db_create_table", <<"t1", table_size>>)>>
            \o When(with_index, <<Call("db_create_index", <<"i1 on t1(b)">>)>>)
            \o <<Call("timing_start", <<>>),
                 Call("db_begin_transaction", <<>>)>>
            \o Execs(selects)
            \o <<Call("db_commit_transaction", <<>>)>>)

test_select_compare_strings(tag, dbf, table_size, n_selects) ==
    LET selects == [i \in 1..n_selects |-> select_compare_strings_sql(i - 1)]
    IN  Scenario(n_selects < 1000 /\ SqlAssertsOk(selects), 0, dbf, tag,
            <<Call("db_create_table", <<"t1", table_size>>),
              Call("timing_start", <<>>),
              Call("db_begin_transaction", <<>>)>>
            \o Execs(selects)
            \o <<Call("db_commit_transaction", <<>>)>>)

test_create_index(tag, dbf, table_size) ==
    Scenario(TRUE, 0, dbf, tag,
        <<Call("db_create_table", <<"t1", table_size>>),
          Call("timing_start", <<>>),
          Call("db_exec", <<"CREATE INDEX i1a on t1(a);">>),
          Call("db_exec", <<"CREATE INDEX i1b on t1(b);">>)>>)

test_update(tag, dbf, table_size, with_index, n_rows) ==
    LET updates == [i \in 1..n_rows |-> update_sql(i - 1)]
    IN  Scenario(SqlAssertsOk(updates), 0, dbf, tag,
            <<Call("db_create_table", <<"t1", table_size>>)>>
            \o When(with_index, <<Call("db_create_index", <<"i1a on t1(a)">>)>>)
            \o When(with_index, <<Call("db_create_index", <<"i1b on t1(b)">>)>>)
            \o <<Call("timing_start", <<>>),
                 Call("db_begin_transaction", <<>>)>>
            \o Execs(updates)
            \o <<Call("db_commit_transaction", <<>>)>>)

test_update_strings(tag, dbf, table_size, n_rows, rnd) ==
    LET data == generate_test_data(n_rows, rnd)
        updates == [i \in 1..n_rows |-> update_strings_sql(i - 1, data[i])]
    IN  Scenario(DataAssertsOk(data) /\ SqlAssertsOk(updates), n_rows, dbf, tag,
            <<Call("db_create_table", <<"t1", table_size>>),
              Call("db_create_index", <<"i1a on t1(a)">>),
              Call("db_create_index", <<"i1b on t1(b)">>),
              Call("timing_start", <<>>),
              Call("db_begin_transaction", <<>>)>>
            \o Execs(updates)
            \o <<Call("db_commit_transaction", <<>>)>>)

test_insert_from_select(tag, dbf, table_size) ==
    Scenario(TRUE, 0, dbf, tag,
        <<Call("db_create_table", <<"t1", table_size>>),
          Call("db_create_table", <<"t2", table_size>>),
          Call("db_create_index", <<"i2a on t2(a)">>),
          Call("db_create_index", <<"i2b on t2(b)">>),
          Call("timing_start", <<>>),
          Call("db_begin_transaction", <<>>),
          Call("db_exec", <<"INSERT INTO t1 SELECT b, a, c FROM t2">>),
          Call("db_exec", <<"INSERT INTO t2 SELECT b, a, c FROM t1">>),
          Call("db_commit_transaction", <<>>)>>)

test_delete_variantsSwapped(tag, dbf, table_size, with_index) ==
    Scenario(TRUE, 0, dbf, tag,
        <<Call("db_create_table", <<"t1", table_size>>),
          Call("db_create_index", <<"i1a on t1(a)">>),
          Call("db_create_index", <<"i1b on t1(b)">>),
          Call("timing_start", <<>>),
          Call("db_exec", <<IF with_index
                            THEN "DELETE FROM t1 WHERE c LIKE '%50%';"
                            ELSE "DELETE FROM t1 WHERE a > 10 AND a < 20000;">>)>>)

test_delete(tag, dbf, table_size, with_index) ==
    Scenario(TRUE, 0, dbf, tag,
        <<Call("db_create_table", <<"t1", table_size>>),
          Call("db_create_index", <<"i1a on t1(a)">>),
          Call("db_create_index", <<"i1b on t1(b)">>),
          Call("timing_start", <<>>),
          Call("db_exec", <<IF with_index
                            THEN "DELETE FROM t1 WHERE a > 10 AND a < 20000;"
                            ELSE "DELETE FROM t1 WHERE c LIKE '%50%';">>)>>)

test_big_insert_after_big_delete_timedDelete(tag, dbf, table_size) ==
    Scenario(TRUE, 0, dbf, tag,
        <<Call("db_create_table", <<"t1", table_size>>),
          Call("db_create_table", <<"t2", table_size>>),
          Call("db_create_index", <<"i2a on t2(a)">>),
          Call("db_create_index", <<"i2b on t2(b)">>),
          Call("timing_start", <<>>),
          Call("db_exec", <<"DELETE FROM t2 WHERE a > 10 AND A < 20000;">>),
          Call("db_exec", <<"INSERT INTO t2 SELECT * FROM t1">>)>>)

test_big_insert_after_big_delete(tag, dbf, table_size) ==
    Scenario(TRUE, 0, dbf, tag,
        <<Call("db_create_table", <<"t1", table_size>>),
          Call("db_create_table", <<"t2", table_size>>),
          Call("db_create_index", <<"i2a on t2(a)">>),
          Call("db_create_index", <<"i2b on t2(b)">>),
          Call("db_exec", <<"DELETE FROM t2 WHERE a > 10 AND A < 20000;">>),
          Call("timing_start", <<>>),
          Call("db_exec", <<"INSERT INTO t2 SELECT * FROM t1">>)>>)

test_small_inserts_after_big_delete(tag, dbf, table_size, n_rows, rnd) ==
    LET data == generate_test_data(n_rows, rnd)
        inserts == [i \in 1..n_rows |-> insert_sql(i - 1, data[i])]
    IN  Scenario(DataAssertsOk(data) /\ SqlAssertsOk(inserts), n_rows, dbf, tag,
            <<Call("db_create_table", <<"t1", table_size>>),
              Call("db_create_index", <<"i1a on t1(a)">>),
              Call("db_create_index", <<"i1b on t1(b)">>),
              Call("timing_start", <<>>),
              Call("db_begin_transaction", <<>>),
              Call("db_exec", <<"DELETE FROM t1;">>)>>
            \o Execs(inserts)
            \o <<Call("db_commit_transaction", <<>>)>>)

test_drop_table(tag, dbf, table_size) ==
    Scenario(TRUE, 0, dbf, tag,
        <<Call("db_create_table", <<"t1", table_size>>),
          Call("db_create_table", <<"t2", table_size>>),
          Call("db_create_table", <<"t3", table_size>>),
          Call("db_create_index", <<"i2a on t2(a)">>),
          Call("db_create_index", <<"i2b on t2(b)">>),
          Call("db_create_index", <<"i3 on t3(c)">>),
          Call("timing_start", <<>>),
          Call("db_exec", <<"DROP TABLE t1">>),
          Call("db_exec", <<"DROP TABLE t2">>),
          Call("db_exec", <<"DROP TABLE t3">>)>>)

----------------------------------------------------------------------------
(* The driver *)

\* test_cases[]: the sixteen named cases and BLTS_CLI_END_OF_LIST, whose
\* case_name is a null pointer.
NullName == "(null)"

test_cases ==
    << "insert_no_transaction", "insert", "insert_indexed", "select",
       "select_compare_strings",
       "create_index", "select_indexed", "update", "update_indexed",
       "update_strings_indexed",
       "insert_from_select", "delete", "delete_indexed", "big_insert_after_big_delete",
       "small_inserts_after_big_delete",
       "drop_table",
       NullName >>

NCases == Len(test_cases) - 1

\* The ordinals exec_test is called with: the cases, and one or two on each side.
TestNums == 0..(NCases + 2)

\* What a read outside test_cases[] may return.
StrayNames == {NullName, "stray"}

\* test_cases[test_num - 1].case_name; stray is what the read yields when the
\* index is outside the array.
case_name_offByOne(n, stray) == IF n \in 0..NCases THEN test_cases[n + 1] ELSE stray

case_name(n, stray) == IF n - 1 \in 0..NCases THEN test_cases[n] ELSE stray

\* A count of the driver, scaled to at most m.
Scaled(count, m) == Min(count, m)

\* srand(time(NULL)): the seeds the clock may give.
Seeds == {1, 2}

\* The k-th value (k = 1, 2, ...) random() returns after the seed was set.
Random(seed, k) == seed * 1000003 + k * 123457

\* The next n values of the source r.
Draw(r, n) == [i \in 1..n |-> Random(r.seed, r.drawn + i)]

\* The switch of exec_test; m scales the counts, rnd feeds generate_test_data.
Dispatch(n, tag, dbf, m, rnd) ==
    CASE n = 1 -> test_insert(tag, dbf, FALSE, FALSE, Scaled(1000, m), rnd)
      [] n = 2 -> test_insert(tag, dbf, TRUE, FALSE, Scaled(25000, m), rnd)
      [] n = 3 -> test_insert(tag, dbf, TRUE, TRUE, Scaled(25000, m), rnd)
      [] n = 4 -> test_select(tag, dbf, Scaled(25000, m), FALSE, Scaled(100, m))
      [] n = 5 -> test_select_compare_strings(tag, dbf, Scaled(25000, m), Scaled(100, m))
      [] n = 6 -> test_create_index(tag, dbf, Scaled(25000, m))
      [] n = 7 -> test_select(tag, dbf, Scaled(25000, m), TRUE, Scaled(5000, m))
      [] n = 8 -> test_update(tag, dbf, Scaled(25000, m), FALSE, Scaled(1000, m))
      [] n = 9 -> test_update(tag, dbf, Scaled(25000, m), TRUE, Scaled(25000, m))
      [] n = 10 -> test_update_strings(tag, dbf, Scaled(25000, m), Scaled(25000, m), rnd)
      [] n = 11 -> test_insert_from_select(tag, dbf, Scaled(25000, m))
      [] n = 12 -> test_delete(tag, dbf, Scaled(25000, m), FALSE)
      [] n = 13 -> test_delete(tag, dbf, Scaled(25000, m), TRUE)
      [] n = 14 -> test_big_insert_after_big_delete(tag, dbf, Scaled(25000, m))
      [] n = 15 -> test_small_inserts_after_big_delete(tag, dbf, Scaled(25000, m),
                                                       Scaled(12000, m), rnd)
      [] n = 16 -> test_drop_table(tag, dbf, Scaled(25000, m))

----------------------------------------------------------------------------
(* The state machine *)

Absent == [exists |-> FALSE, content |-> EmptyDb]

Stored(content) == [exists |-> TRUE, content |-> content]

\* What an earlier program may have left in the file.
Leftover ==
    [tables |-> [n \in {"t1"} |-> <<[a |-> 0, b |-> 7, c |-> "zero zero zero zero zero seven"]>>],
     indexes |-> {[name |-> "i1a", table |-> "t1", column |-> "a"]}]

MemoryDb == ":memory:"

Init ==
    /\ phase = "idle"
    /\ rng = [seed |-> 1, drawn |-> 0]
    /\ db_file \in {"test.db", MemoryDb}
    /\ file \in {Absent, Stored(EmptyDb), Stored(Leftover)}
    /\ test_num = 0
    /\ tag_base = ""
    /\ prog = <<>>
    /\ pc = 0
    /\ retv = EXIT_FAILURE
    /\ rc = 0
    /\ db = "NULL"
    /\ conn = NoConn
    /\ stmts = 0
    /\ trace = <<>>
    /\ samples = <<>>
    /\ call = [fn |-> "none"]
    /\ result = [fn |-> "none"]

Event(op, ok, args, eng) == [op |-> op, ok |-> ok, args |-> args, eng |-> eng]

FailPc_aboveReport == Len(prog) - 3

FailPc_aboveTimingStop == Len(prog) - 4

\* The fail: label of the running scenario function: the db_close before the
\* return.
FailPc == Len(prog) - 1

Running(op) == phase = "running" /\ pc \in 1..Len(prog) /\ prog[pc].op = op

\* The call at pc returned ok: go on, or goto fail.
Goto(ok) == pc' = IF ok THEN pc + 1 ELSE FailPc

\* The database file follows what the connection commits.
FileAfter(c) == IF db_file = MemoryDb THEN file ELSE Stored(c.saved)

exec_test_default_unset == EXIT_SUCCESS

\* default: rc = -EINVAL;
exec_test_default == 0 - EINVAL

\* exec_test(user_ptr, test_num), up to the call of the scenario function (or
\* through its return, for the default branch); m scales the driver's counts.
ExecTest ==
    /\ phase = "idle"
    /\ \E n \in TestNums, seed \in Seeds :
          /\ test_num' = n
          /\ IF n \in 1..NCases
             THEN \E m \in 1..MaxCount :
                    LET s == Dispatch(n, case_name(n, NullName), db_file, m,
                                      Draw([seed |-> seed, drawn |-> 0], MaxCount))
                    IN  /\ tag_base' = case_name(n, NullName)
                        /\ phase' = IF s.assert_ok THEN "running" ELSE "aborted"
                        /\ prog' = s.prog
                        /\ pc' = 1
                        /\ rc' = 0
                        /\ rng' = [seed |-> seed, drawn |-> s.drawn]
             ELSE \E stray \in StrayNames :
                    /\ tag_base' = case_name(n, stray)
                    /\ phase' = "returned"
                    /\ prog' = <<>>
                    /\ pc' = 0
                    /\ rc' = exec_test_default
                    /\ rng' = [seed |-> seed, drawn |-> 0]
    /\ UNCHANGED <<db_file, file, retv, db, conn, stmts, trace, samples, call, result>>

\* The process ends; the next invocation starts from a fresh process image.
ProcessExit ==
    /\ phase \in {"returned", "aborted"}
    /\ phase' = "idle"
    /\ rng' = [seed |-> 1, drawn |-> 0]
    /\ test_num' = 0
    /\ tag_base' = ""
    /\ prog' = <<>>
    /\ pc' = 0
    /\ retv' = EXIT_FAILURE
    /\ rc' = 0
    /\ db' = "NULL"
    /\ conn' = NoConn
    /\ stmts' = 0
    /\ trace' = <<>>
    /\ samples' = <<>>
    /\ UNCHANGED <<db_file, file, call, result>>

db_open_truncate_noUnlink(f, path, unlinkOk, openOk, handleOnError) ==
    IF ~openOk
    THEN [ok |-> FALSE, file |-> f, db |-> handleOnError, conn |-> NoConn,
          eng |-> <<[call |-> "sqlite3_open_v2", sql |-> path, ok |-> FALSE]>>]
    ELSE [ok |-> TRUE, file |-> IF path = MemoryDb THEN f ELSE Stored(f.content),
          db |-> "open",
          conn |-> NewConn(IF path = MemoryDb THEN EmptyDb ELSE f.content),
          eng |-> <<[call |-> "sqlite3_open_v2", sql |-> path, ok |-> TRUE]>>]

\* db_open_truncate_(db, db_file): f is the file system entry named db_file.
\* Returns ok, the entry afterwards, the handle and what the connection sees.
db_open_truncate_(f, path, unlinkOk, openOk, handleOnError) ==
    LET unlinked == f.exists
        g == IF unlinked /\ unlinkOk THEN Absent ELSE f
        content == IF path = MemoryDb \/ ~g.exists THEN EmptyDb ELSE g.content
        unlink == IF unlinked THEN <<[call |-> "unlink", sql |-> path, ok |-> unlinkOk]>>
                  ELSE <<>>
    IN  IF unlinked /\ ~unlinkOk
        THEN [ok |-> FALSE, file |-> f, db |-> "NULL", conn |-> NoConn, eng |-> unlink]
        ELSE IF ~openOk
        THEN [ok |-> FALSE, file |-> g, db |-> handleOnError, conn |-> NoConn,
              eng |-> unlink \o <<[call |-> "sqlite3_open_v2", sql |-> path, ok |-> FALSE]>>]
        ELSE [ok |-> TRUE, file |-> IF path = MemoryDb THEN g ELSE Stored(content),
              db |-> "open", conn |-> NewConn(content),
              eng |-> unlink \o <<[call |-> "sqlite3_open_v2", sql |-> path, ok |-> TRUE]>>]

DbOpenTruncate ==
    /\ Running("db_open_truncate")
    /\ \E unlinkOk \in BOOLEAN, openOk \in BOOLEAN, handleOnError \in {"NULL", "failed"} :
          LET r == db_open_truncate_(file, prog[pc].args[1], unlinkOk, openOk, handleOnError)
          IN  /\ file' = r.file
              /\ db' = r.db
              /\ conn' = r.conn
              /\ trace' = Append(trace, Event("db_open_truncate", r.ok, prog[pc].args, r.eng))
              /\ Goto(r.ok)
    /\ UNCHANGED <<phase, rng, db_file, test_num, tag_base, prog, retv, rc, stmts,
                   samples, call, result>>

TimingStart ==
    /\ Running("timing_start")
    /\ trace' = Append(trace, Event("timing_start", TRUE, <<>>, <<>>))
    /\ pc' = pc + 1
    /\ UNCHANGED <<phase, rng, db_file, file, test_num, tag_base, prog, retv, rc, db,
                   conn, stmts, samples, call, result>>

TimingStop ==
    /\ Running("timing_stop")
    /\ trace' = Append(trace, Event("timing_stop", TRUE, <<>>, <<>>))
    /\ pc' = pc + 1
    /\ UNCHANGED <<phase, rng, db_file, file, test_num, tag_base, prog, retv, rc, db,
                   conn, stmts, samples, call, result>>

\* A wrapper call on the open handle returned r.
Wrapped(op, r) ==
    /\ conn' = r.conn
    /\ file' = FileAfter(r.conn)
    /\ stmts' = stmts + r.open_stmts
    /\ trace' = Append(trace, Event(op, r.ok, prog[pc].args, r.eng))
    /\ IF r.assert_ok
       THEN phase' = phase /\ Goto(r.ok)
       ELSE phase' = "aborted" /\ pc' = pc
    /\ UNCHANGED <<db_file, test_num, tag_base, prog, retv, rc, db, samples,
                   call, result>>

DbCreateTable ==
    /\ Running("db_create_table")
    /\ rng' = [rng EXCEPT !.drawn = @ + prog[pc].args[2]]
    /\ \E fault \in CreateTableFaults(prog[pc].args[2]) :
          Wrapped("db_create_table",
                  db_create_table_(conn, prog[pc].args[1], prog[pc].args[2],
                                   Draw(rng, prog[pc].args[2]), fault))

DbCreateIndex ==
    /\ UNCHANGED rng
    /\ Running("db_create_index")
    /\ \E fault \in BOOLEAN :
          Wrapped("db_create_index", db_create_index_(conn, prog[pc].args[1], fault))

DbExec ==
    /\ UNCHANGED rng
    /\ Running("db_exec")
    /\ \E fault \in BOOLEAN :
          Wrapped("db_exec", db_exec_(conn, prog[pc].args[1], fault))

DbBeginTransaction ==
    /\ UNCHANGED rng
    /\ Running("db_begin_transaction")
    /\ \E fault \in BOOLEAN :
          Wrapped("db_begin_transaction", db_begin_transaction_(conn, fault))

DbCommitTransaction ==
    /\ UNCHANGED rng
    /\ Running("db_commit_transaction")
    /\ \E fault \in BOOLEAN :
          Wrapped("db_commit_transaction", db_commit_transaction_(conn, fault))

\* report_extended_result(tag_base, tag, value, unit)
report_extended_result(base, tag, unit) ==
    LET full_tag == snprintf(FULL_TAG_MAX, "%s.%s", <<base, tag>>)
    IN  [assert_ok |-> full_tag.n_written < FULL_TAG_MAX,
         sample |-> [tag |-> full_tag.str, value |-> "timing_elapsed", unit |-> unit]]

ReportExtendedResult ==
    /\ Running("report_extended_result")
    /\ LET r == report_extended_result(prog[pc].args[1], prog[pc].args[2], prog[pc].args[3])
       IN  /\ phase' = IF r.assert_ok THEN phase ELSE "aborted"
           /\ samples' = IF r.assert_ok THEN Append(samples, r.sample) ELSE samples
           /\ trace' = Append(trace, Event("report_extended_result", r.assert_ok,
                                           prog[pc].args, <<>>))
    /\ pc' = pc + 1
    /\ UNCHANGED <<rng, db_file, file, test_num, tag_base, prog, retv, rc, db, conn,
                   stmts, call, result>>

SetRetvSuccess ==
    /\ Running("retv = EXIT_SUCCESS")
    /\ retv' = EXIT_SUCCESS
    /\ pc' = pc + 1
    /\ UNCHANGED <<phase, rng, db_file, file, test_num, tag_base, prog, rc, db, conn,
                   stmts, trace, samples, call, result>>

\* sqlite3_close(db): a null handle is a no-op; a handle with unfinalized
\* statements stays open (SQLITE_BUSY); an open transaction is rolled back.
sqlite3_close(h, open_stmts) ==
    IF h = "NULL" THEN [ok |-> TRUE, db |-> "NULL"]
    ELSE IF open_stmts > 0 THEN [ok |-> FALSE, db |-> h]
    ELSE [ok |-> TRUE, db |-> "closed"]

DbClose ==
    /\ Running("db_close")
    /\ LET r == sqlite3_close(db, stmts)
       IN  /\ db' = r.db
           /\ conn' = IF r.db = "closed" THEN NoConn ELSE conn
           /\ trace' = Append(trace, Event("db_close", r.ok, <<db>>,
                  <<[call |-> "sqlite3_close", sql |-> "", ok |-> r.ok, txn |-> conn.txn,
                     open_stmts |-> stmts]>>))
    /\ pc' = pc + 1
    /\ UNCHANGED <<phase, rng, db_file, file, test_num, tag_base, prog, retv, rc,
                   stmts, samples, call, result>>

\* The scenario function returns retv, and exec_test returns it as rc.
ScenarioReturn ==
    /\ Running("return")
    /\ phase' = "returned"
    /\ rc' = retv
    /\ UNCHANGED <<rng, db_file, file, test_num, tag_base, prog, pc, retv, db, conn,
                   stmts, trace, samples, call, result>>

Next ==
    \/ ExecTest
    \/ ProcessExit
    \/ DbOpenTruncate
    \/ TimingStart
    \/ DbCreateTable
    \/ DbCreateIndex
    \/ DbExec
    \/ DbBeginTransaction
    \/ DbCommitTransaction
    \/ TimingStop
    \/ ReportExtendedResult
    \/ SetRetvSuccess
    \/ DbClose
    \/ ScenarioReturn

Spec == Init /\ [][Next]_vars

----------------------------------------------------------------------------
(* generate_test_data and the statement builders on their own: the input is  *)
(* drawn in the initial state and one action applies the function.           *)

\* Values random() may return (0 .. 2^31 - 1).
RandomSamples == {0, 7, 123456, 373878, 999999, 1000000, 2147483647}

\* Loop indexes: n_rows and n_selects go up to 160,000.
IndexSamples == {0, 9, 10, 999, 24999, 159999}

\* n_selects < 1000 is asserted by test_select_compare_strings.
CompareIndexSamples == {0, 9, 99, 377, 999}

TableNames == {"t1", "t2", "t3"}

IndexSpecs == {"i1 on t1(c)", "i1 on t1(b)", "i1a on t1(a)", "i1b on t1(b)",
               "i2a on t2(a)", "i2b on t2(b)", "i3 on t3(c)"}

Parked ==
    /\ phase = "parked"
    /\ rng = [seed |-> 1, drawn |-> 0]
    /\ db_file = MemoryDb
    /\ file = Absent
    /\ test_num = 0
    /\ tag_base = ""
    /\ prog = <<>>
    /\ pc = 0
    /\ retv = EXIT_FAILURE
    /\ rc = 0
    /\ db = "NULL"
    /\ conn = NoConn
    /\ stmts = 0
    /\ trace = <<>>
    /\ samples = <<>>

GenCalls ==
    UNION {{[fn |-> "generate_test_data", n_rows |-> n, rnd |-> r] :
               r \in [1..n -> RandomSamples]} : n \in 0..MaxGen}

InitGen ==
    /\ Parked
    /\ call \in GenCalls
    /\ result = [fn |-> "none"]

GenerateTestData ==
    /\ call.fn = "generate_test_data"
    /\ result.fn = "none"
    /\ result' = [fn |-> "generate_test_data",
                  data |-> generate_test_data(call.n_rows, call.rnd)]
    /\ UNCHANGED <<mainVars, call>>

NextGen == GenerateTestData

SpecGen == InitGen /\ [][NextGen]_vars

FmtCalls ==
    {[fn |-> "insert_sql", i |-> i, r |-> r, s |-> ""] :
        i \in IndexSamples, r \in RandomSamples}
    \cup {[fn |-> "update_strings_sql", i |-> i, r |-> r, s |-> ""] :
        i \in IndexSamples, r \in RandomSamples}
    \cup {[fn |-> f, i |-> i, r |-> 0, s |-> ""] :
        f \in {"select_sql", "update_sql"}, i \in IndexSamples}
    \cup {[fn |-> "select_compare_strings_sql", i |-> i, r |-> 0, s |-> ""] :
        i \in CompareIndexSamples}
    \cup {[fn |-> f, i |-> 0, r |-> 0, s |-> t] :
        f \in {"create_table_sql", "seed_insert_sql"}, t \in TableNames}
    \cup {[fn |-> "create_index_sql", i |-> 0, r |-> 0, s |-> x] : x \in IndexSpecs}

InitFmt ==
    /\ Parked
    /\ call \in FmtCalls
    /\ result = [fn |-> "none"]

Built(c) ==
    CASE c.fn = "insert_sql" -> insert_sql(c.i, test_data_row(c.r))
      [] c.fn = "update_strings_sql" -> update_strings_sql(c.i, test_data_row(c.r))
      [] c.fn = "select_sql" -> select_sql(c.i)
      [] c.fn = "update_sql" -> update_sql(c.i)
      [] c.fn = "select_compare_strings_sql" -> select_compare_strings_sql(c.i)
      [] c.fn = "create_table_sql" -> create_table_sql(c.s)
      [] c.fn = "seed_insert_sql" -> seed_insert_sql(c.s)
      [] c.fn = "create_index_sql" -> create_index_sql(c.s)

SqlSprintf ==
    /\ call \in FmtCalls
    /\ result.fn = "none"
    /\ result' = [fn |-> "sql_sprintf", sql |-> Built(call)]
    /\ UNCHANGED <<mainVars, call>>

NextFmt == SqlSprintf

SpecFmt == InitFmt /\ [][NextFmt]_vars

\* test_delete at the driver's scale.  A table of up to three rows is held
\* whole; a larger one is held by its rows at the keys around the bounds of
\* the range predicate (a DELETE decides row by row, so what it does to these
\* rows is what it does to them in the whole table).
BoundaryKeys == <<0, 1, 2, 10, 11, 19999, 20000, 24999>>

TableSizes == {1, 2, 3, 12, 20001, 25000}

KeysBelow(table_size) == SelectSeq(BoundaryKeys, LAMBDA k : k < table_size)

\* Values of random() whose digit-words hold "five zero" once and three times.
DeleteRandomSamples == {50, 505050}

RECURSIVE SeedSampled(_, _, _, _)
\* The seeding loop of db_create_table_ at the keys held, from the i-th on.
SeedSampled(c, keys, rnd, i) ==
    IF i > Len(keys) THEN c
    ELSE SeedSampled(sqlite3_step(c, "t1", keys[i], test_data_row(rnd[i]).number,
                                  test_data_row(rnd[i]).string, FALSE).conn,
                     keys, rnd, i + 1)

\* The statement a scenario executes right after timing_start.
MeasuredStatement(scenario) ==
    scenario.prog[1 + CHOOSE i \in 1..(Len(scenario.prog) - 1) :
                         scenario.prog[i].op = "timing_start"].args[1]

DelCalls ==
    UNION {{[fn |-> "test_delete", table_size |-> n, with_index |-> w, rnd |-> r] :
               w \in BOOLEAN, r \in [1..Len(KeysBelow(n)) -> DeleteRandomSamples]} :
           n \in TableSizes}

InitDel ==
    /\ Parked
    /\ call \in DelCalls
    /\ result = [fn |-> "none"]

\* test_delete from the seeded table to the end of its measured region.
Deleted(seeded, sql) ==
    [fn |-> "test_delete", sql |-> sql, before |-> seeded.tables["t1"],
     ok |-> db_exec_(seeded, sql, FALSE).ok,
     after |-> db_exec_(seeded, sql, FALSE).conn.tables["t1"]]

TestDelete ==
    /\ call.fn = "test_delete"
    /\ result.fn = "none"
    /\ result' = Deleted(
           SeedSampled(CreateTable(NewConn(EmptyDb), "t1").conn,
                       KeysBelow(call.table_size), call.rnd, 1),
           MeasuredStatement(test_delete("delete", MemoryDb, call.table_size,
                                         call.with_index)))
    /\ UNCHANGED <<mainVars, call>>

NextDel == TestDelete

SpecDel == InitDel /\ [][NextDel]_vars

----------------------------------------------------------------------------
(* Properties *)

\* The run is one of the sixteen cases.
Dispatched == test_num \in 1..NCases

\* exec_test has returned from one of the sixteen cases.
Returned == phase = "returned" /\ Dispatched

Positions(op) == {i \in 1..Len(trace) : trace[i].op = op}

Count(op) == Cardinality(Positions(op))

\* A wrapper call of the scenario returned failure.
FailedAt(i) == ~trace[i].ok /\ trace[i].op # "db_close"

AnyFailure == \E i \in 1..Len(trace) : FailedAt(i)

EngCalls(e, name) == {j \in 1..Len(e.eng) : e.eng[j].call = name}

EngExecs(e, sql) ==
    {j \in 1..Len(e.eng) : e.eng[j].call = "sqlite3_exec" /\ e.eng[j].sql = sql}

StartsWith(text, prefix) ==
    Len(text) >= Len(prefix) /\ SubSeq(text, 1, Len(prefix)) = prefix

\* C1: when a scenario function has returned, whatever wrapper call failed,
\* db_close was called exactly once, as the last call, on the handle that
\* db_open_truncate produced; the handle is not left open; and every
\* statement db_create_table prepared was finalized inside that call, before
\* the close.
C1_ClosedOnEveryExit ==
    Returned =>
        /\ Count("db_close") = 1
        /\ trace[Len(trace)].op = "db_close"
        /\ trace[1].op = "db_open_truncate"
        /\ trace[Len(trace)].args[1] \in
               (IF trace[1].ok THEN {"open"}
                ELSE IF EngCalls(trace[1], "sqlite3_open_v2") = {} THEN {"NULL"}
                ELSE {"NULL", "failed"})
        /\ trace[Len(trace)].eng[1].open_stmts = 0
        /\ trace[Len(trace)].ok
        /\ db \in {"NULL", "closed"}
        /\ trace[1].ok => db = "closed"
        /\ stmts = 0
        /\ \A i \in Positions("db_create_table") :
              \A j \in EngCalls(trace[i], "sqlite3_prepare_v2") :
                  trace[i].eng[j].ok =>
                      \E k \in EngCalls(trace[i], "sqlite3_finalize") :
                          k > j /\ trace[i].eng[k].stmt

\* C1 witness: a seeding sqlite3_step failed inside db_create_table, after the
\* statement was prepared, and the scenario returned with the handle closed.
C1_Witness ==
    /\ Returned
    /\ db = "closed"
    /\ \E i \in Positions("db_create_table") :
          /\ ~trace[i].ok
          /\ \E j \in EngCalls(trace[i], "sqlite3_step") : ~trace[i].eng[j].ok

\* C2: a scenario in which any wrapper call failed records no sample and
\* returns EXIT_FAILURE; a sample exists only if every call so far succeeded.
C2_NoSampleOnFailure ==
    Dispatched =>
        /\ AnyFailure => samples = <<>>
        /\ (Returned /\ AnyFailure) => (retv = EXIT_FAILURE /\ rc = EXIT_FAILURE)
        /\ samples # <<>> => \A i \in 1..Len(trace) : trace[i].ok

\* C2 witness: a call inside the timed region failed and the scenario
\* returned.
C2_Witness ==
    /\ Returned
    /\ samples = <<>>
    /\ retv = EXIT_FAILURE
    /\ \E i \in Positions("timing_start") :
          \E j \in 1..Len(trace) : j > i /\ FailedAt(j)

\* C3: for every ordinal 1..16, a run whose scenario succeeds records exactly
\* one sample, unit "s", tag the case name followed by ".elapsed", and the
\* driver returns 0; a run whose scenario fails returns its nonzero status.
C3_OneSamplePerCase ==
    Returned =>
        IF AnyFailure
        THEN rc # 0 /\ rc = retv
        ELSE /\ Len(samples) = 1
             /\ samples[1].unit = "s"
             /\ samples[1].tag = test_cases[test_num] \o ".elapsed"
             /\ rc = 0

\* C3 witness: the last case, drop_table, succeeded.
C3_Witness ==
    /\ Returned
    /\ test_num = NCases
    /\ ~AnyFailure
    /\ Len(samples) = 1
    /\ samples[1].tag = "drop_table.elapsed"

SetupOps == {"db_create_table", "db_create_index", "db_begin_transaction"}

\* C4, as claimed: in test_insert (cases 1..3) the table creation, the index
\* creation and the BEGIN happen before the timer is started; no setup step
\* runs after timing_start.
C4_InsertSetupBeforeTimer ==
    test_num \in 1..3 =>
        \A i \in Positions("timing_start") :
            \A j \in 1..Len(trace) : j > i => trace[j].op \notin SetupOps

\* What a call of the trace is, with the argument that tells the calls of one
\* wrapper apart.
Step(e) ==
    IF e.op \in {"db_create_table", "db_create_index", "db_exec"}
    THEN <<e.op, e.args[1]>>
    ELSE <<e.op>>

Steps(from, to) == [i \in 1..(to - from + 1) |-> Step(trace[from + i - 1])]

Table(name) == <<"db_create_table", name>>

Index(spec) == <<"db_create_index", spec>>

Exec(sql) == <<"db_exec", sql>>

\* The untimed setup of the cases 4..16, from the scenario table.
ExpectedSetup(n) ==
    CASE n \in {4, 5, 6, 8} -> <<Table("t1")>>
      [] n = 7 -> <<Table("t1"), Index("i1 on t1(b)")>>
      [] n \in {9, 10, 12, 13, 15} ->
            <<Table("t1"), Index("i1a on t1(a)"), Index("i1b on t1(b)")>>
      [] n = 11 ->
            <<Table("t1"), Table("t2"), Index("i2a on t2(a)"), Index("i2b on t2(b)")>>
      [] n = 14 ->
            <<Table("t1"), Table("t2"), Index("i2a on t2(a)"), Index("i2b on t2(b)"),
              Exec("DELETE FROM t2 WHERE a > 10 AND A < 20000;")>>
      [] n = 16 ->
            <<Table("t1"), Table("t2"), Table("t3"), Index("i2a on t2(a)"),
              Index("i2b on t2(b)"), Index("i3 on t3(c)")>>

\* m is BEGIN, statements, COMMIT, each statement satisfying Each, after the
\* leading statements given.
InTransaction(m, leading, Each(_)) ==
    /\ Len(m) >= 2 + Len(leading)
    /\ m[1] = <<"db_begin_transaction">>
    /\ m[Len(m)] = <<"db_commit_transaction">>
    /\ \A i \in 1..Len(leading) : m[1 + i] = leading[i]
    /\ \A i \in (2 + Len(leading))..(Len(m) - 1) : m[i][1] = "db_exec" /\ Each(m[i][2])

IsSelectRange(sql) == StartsWith(sql, "SELECT count(*), avg(b) FROM t1 WHERE b >= ")

IsSelectLike(sql) == StartsWith(sql, "SELECT count(*), avg(b) FROM t1 WHERE c LIKE '%")

IsUpdateRange(sql) == StartsWith(sql, "UPDATE t1 SET b=b*2 WHERE a >= ")

IsUpdateText(sql) == StartsWith(sql, "UPDATE t1 SET c='")

IsInsert(sql) == StartsWith(sql, "INSERT INTO t1 VALUES(")

\* The measured statements of the cases 4..16, from the scenario table.
ExpectedMeasured(n, m) ==
    CASE n \in {4, 7} -> InTransaction(m, <<>>, IsSelectRange)
      [] n = 5 -> InTransaction(m, <<>>, IsSelectLike)
      [] n = 6 -> m = <<Exec("CREATE INDEX i1a on t1(a);"), Exec("CREATE INDEX i1b on t1(b);")>>
      [] n \in {8, 9} -> InTransaction(m, <<>>, IsUpdateRange)
      [] n = 10 -> InTransaction(m, <<>>, IsUpdateText)
      [] n = 11 ->
            m = <<<<"db_begin_transaction">>,
                  Exec("INSERT INTO t1 SELECT b, a, c FROM t2"),
                  Exec("INSERT INTO t2 SELECT b, a, c FROM t1"),
                  <<"db_commit_transaction">>>>
      [] n = 12 -> m = <<Exec("DELETE FROM t1 WHERE c LIKE '%50%';")>>
      [] n = 13 -> m = <<Exec("DELETE FROM t1 WHERE a > 10 AND a < 20000;")>>
      [] n = 14 -> m = <<Exec("INSERT INTO t2 SELECT * FROM t1")>>
      [] n = 15 -> InTransaction(m, <<Exec("DELETE FROM t1;")>>, IsInsert)
      [] n = 16 ->
            m = <<Exec("DROP TABLE t1"), Exec("DROP TABLE t2"), Exec("DROP TABLE t3")>>

\* C5: a successful run of one of the other ten scenarios (cases 4..16) is, in
\* order: open, the scenario's setup, timing_start, the scenario's measured
\* statements and nothing else, timing_stop, report, close.
C5_EventOrder ==
    (Returned /\ test_num \in 4..NCases /\ ~AnyFailure) =>
        /\ Count("timing_start") = 1
        /\ Count("timing_stop") = 1
        /\ LET start == CHOOSE i \in Positions("timing_start") : TRUE
               stop == CHOOSE i \in Positions("timing_stop") : TRUE
           IN  /\ start < stop
               /\ Step(trace[1]) = <<"db_open_truncate">>
               /\ Steps(2, start - 1) = ExpectedSetup(test_num)
               /\ ExpectedMeasured(test_num, Steps(start + 1, stop - 1))
               /\ Steps(stop + 1, Len(trace)) =
                      <<<<"report_extended_result">>, <<"db_close">>>>

\* C5 witness: big_insert_after_big_delete succeeded; its DELETE on t2 is
\* setup and its INSERT ... SELECT the only measured statement.
C5_Witness ==
    /\ Returned
    /\ test_num = 14
    /\ ~AnyFailure
    /\ Len(samples) = 1

\* C6, as claimed: whatever the outcome, a returned scenario called
\* timing_start exactly once and timing_stop exactly once.
C6_OneStartOneStop ==
    Returned => (Count("timing_start") = 1 /\ Count("timing_stop") = 1)

\* C6, amended: a scenario never calls timing_start or timing_stop twice and
\* never stops a timer it did not start; a successful scenario called
\* timing_start once and then timing_stop once; a scenario in which a wrapper
\* call failed never calls timing_stop.
C6_TimerOnlyCompletedOnSuccess ==
    Dispatched =>
        /\ Count("timing_start") <= 1
        /\ Count("timing_stop") <= 1
        /\ \A j \in Positions("timing_stop") :
              \E i \in Positions("timing_start") : i < j
        /\ (Returned /\ ~AnyFailure) =>
              (Count("timing_start") = 1 /\ Count("timing_stop") = 1)
        /\ AnyFailure => Count("timing_stop") = 0

\* C6 witness: a measured call failed after timing_start, and the scenario
\* returned without a timing_stop.
C6_Witness ==
    /\ Returned
    /\ Count("timing_start") = 1
    /\ Count("timing_stop") = 0
    /\ \E j \in 1..Len(trace) : FailedAt(j) /\ trace[j].op = "db_exec"

\* C7: an ordinal outside 1..16 runs no scenario, opens no database, records
\* no sample and returns the nonzero invalid-argument status.
C7_InvalidOrdinal ==
    (phase # "idle" /\ ~Dispatched) =>
        /\ phase = "returned"
        /\ prog = <<>>
        /\ trace = <<>>
        /\ db = "NULL"
        /\ conn = NoConn
        /\ samples = <<>>
        /\ rc = 0 - EINVAL
        /\ rc # 0

\* C7 witness: exec_test returned from ordinal 17, the end-of-list entry of the
\* table.
C7_Witness ==
    /\ phase = "returned"
    /\ test_num = NCases + 1
    /\ rc < 0

C10_WitnessEmpty ==
    /\ trace # <<>>
    /\ trace[Len(trace)].op = "db_create_table"
    /\ trace[Len(trace)].ok
    /\ trace[Len(trace)].args[2] = 0
    /\ conn.tables[trace[Len(trace)].args[1]] = <<>>

DigitWord(d) ==
    CASE d = 0 -> "zero" [] d = 1 -> "one" [] d = 2 -> "two" [] d = 3 -> "three"
      [] d = 4 -> "four" [] d = 5 -> "five" [] d = 6 -> "six" [] d = 7 -> "seven"
      [] d = 8 -> "eight" [] d = 9 -> "nine"

RECURSIVE Pow10(_)
Pow10(k) == IF k = 0 THEN 1 ELSE 10 * Pow10(k - 1)

RECURSIVE WordsFrom(_, _)
\* The digit-words of (n / 10^j) % 10 for j = k, k-1, ..., 0, joined by spaces.
WordsFrom(n, k) ==
    DigitWord((n \div Pow10(k)) % 10)
        \o (IF k = 0 THEN "" ELSE " " \o WordsFrom(n, k - 1))

\* C8: generate_test_data(n) fills exactly n rows; in every row
\* 0 <= number < 1000000 and string is the six digit-words of
\* (number / 10^k) % 10 for k = 5..0, joined by single spaces
\* (123456 -> "one two three four five six", 7 -> "zero zero zero zero zero
\* seven"); the string is shorter than 256 bytes, so the assertion holds.
C8_GeneratedRows ==
    result.fn = "generate_test_data" =>
        /\ Len(result.data) = call.n_rows
        /\ \A i \in 1..Len(result.data) :
              LET row == result.data[i]
              IN  /\ row.number \in 0..999999
                  /\ row.string = WordsFrom(row.number, 5)
                  /\ Len(row.string) < 256
                  /\ row.assert_ok
                  /\ row.number = 123456 => row.string = "one two three four five six"
                  /\ row.number = 7 => row.string = "zero zero zero zero zero seven"

\* C8 witness: several rows were generated, one of them from 123456 and one
\* from a random() value above the modulus.
C8_Witness ==
    /\ result.fn = "generate_test_data"
    /\ Len(result.data) > 1
    /\ \E i \in 1..Len(result.data) :
          result.data[i].string = "one two three four five six"
    /\ \E i \in 1..Len(result.data) :
          call.rnd[i] >= 1000000 /\ result.data[i].number < 1000000

\* C9: every statement sql_sprintf builds in the sixteen cases is shorter
\* than 256 bytes, so its overflow assertion never fires.
C9_StatementsFit ==
    result.fn = "sql_sprintf" =>
        /\ result.sql.n_written < 256
        /\ result.sql.assert_ok
        /\ Len(result.sql.str) = result.sql.n_written

\* C9 witness: the insert statement of row 159999 with the longest digit-words
\* was built.
C9_Witness ==
    /\ result.fn = "sql_sprintf"
    /\ call.fn = "insert_sql"
    /\ call.i = 159999
    /\ call.r = 373878
    /\ result.sql.n_written > 70

\* The run has just called db_open_truncate.
JustOpened == Dispatched /\ Len(trace) = 1 /\ trace[1].op = "db_open_truncate"

UnlinkFailed(e) == \E j \in EngCalls(e, "unlink") : ~e.eng[j].ok

\* C11: whatever earlier runs against the same path left behind, a run whose
\* db_open_truncate succeeds starts from a database with no tables and no
\* indexes; and when deleting the existing file fails, db_open_truncate
\* returns failure without opening any database.
C11_FreshDatabase ==
    JustOpened =>
        /\ trace[1].ok =>
              /\ db = "open"
              /\ DOMAIN conn.tables = {}
              /\ conn.indexes = {}
              /\ ~conn.txn
              /\ db_file # MemoryDb => file = Stored(EmptyDb)
        /\ UnlinkFailed(trace[1]) =>
              /\ ~trace[1].ok
              /\ EngCalls(trace[1], "sqlite3_open_v2") = {}
              /\ db = "NULL"
              /\ conn = NoConn
              /\ file.exists

\* C11 witness: a run against the on-disk path found a file there, deleted it
\* and opened an empty database.
C11_Witness ==
    /\ JustOpened
    /\ trace[1].ok
    /\ db_file # MemoryDb
    /\ \E j \in EngCalls(trace[1], "unlink") : trace[1].eng[j].ok
    /\ DOMAIN conn.tables = {}
    /\ file = Stored(EmptyDb)

\* C11, the failure case: the unlink failed and no database was opened.
C11_WitnessUnlinkFailed ==
    /\ JustOpened
    /\ UnlinkFailed(trace[1])
    /\ db = "NULL"

\* C12, as claimed: when the database path is ":memory:", no step unlinks a
\* file and the file system entry of that name is left as it was, whether or
\* not a file named ":memory:" exists.
C12_MemoryLeavesFilesAlone ==
    [][db_file = MemoryDb =>
          /\ file' = file
          /\ \A i \in 1..Len(trace') :
                \A j \in 1..Len(trace'[i].eng) : trace'[i].eng[j].call # "unlink"]_vars

\* C13, as claimed: on every exit path, a failure after a BEGIN included, the
\* transaction has been ended (COMMIT or ROLLBACK) before db_close is called:
\* no db_close finds a transaction open on the handle.
C13_TransactionEndedBeforeClose ==
    Dispatched =>
        \A i \in Positions("db_close") : ~trace[i].eng[1].txn

RECURSIVE EngLogUpTo(_)
\* The engine calls of the first n calls of the trace, in order.
EngLogUpTo(n) == IF n = 0 THEN <<>> ELSE EngLogUpTo(n - 1) \o trace[n].eng

EngLog == EngLogUpTo(Len(trace))

IsExec(e, sql) == e.call = "sqlite3_exec" /\ e.sql = sql

RECURSIVE OpenAfter(_, _)
\* A transaction is open after the first k engine calls of log: the last
\* successful BEGIN or COMMIT among them is a BEGIN.
OpenAfter(log, k) ==
    IF k = 0 THEN FALSE
    ELSE IF IsExec(log[k], "BEGIN") /\ log[k].ok THEN TRUE
    ELSE IF IsExec(log[k], "COMMIT") /\ log[k].ok THEN FALSE
    ELSE OpenAfter(log, k - 1)

\* C14: in every scenario, at every step, BEGIN is issued only when no
\* transaction is open and COMMIT only when one is; db_create_table's seeding
\* transaction is committed before any db_begin_transaction; db_create_table
\* is never called between a db_begin_transaction and its
\* db_commit_transaction; and test_insert (cases 1..3) commits only after it
\* began, a completed run having one BEGIN and one COMMIT when in_transaction
\* (cases 2 and 3) and neither otherwise (case 1).
C14_BeginCommitPairing ==
    Dispatched =>
        /\ \A k \in 1..Len(EngLog) :
              /\ IsExec(EngLog[k], "BEGIN") => ~OpenAfter(EngLog, k - 1)
              /\ IsExec(EngLog[k], "COMMIT") => OpenAfter(EngLog, k - 1)
        /\ \A j \in Positions("db_begin_transaction") :
              ~OpenAfter(EngLogUpTo(j - 1), Len(EngLogUpTo(j - 1)))
        /\ \A i \in Positions("db_create_table") :
              \A j \in Positions("db_begin_transaction") :
                  j < i => \E k \in Positions("db_commit_transaction") :
                               j < k /\ k < i /\ trace[k].ok
        /\ test_num \in 1..3 =>
              /\ \A k \in Positions("db_commit_transaction") :
                    \E j \in Positions("db_begin_transaction") : j < k
              /\ (Returned /\ ~AnyFailure) =>
                    /\ Count("db_begin_transaction") = (IF test_num = 1 THEN 0 ELSE 1)
                    /\ Count("db_commit_transaction") = Count("db_begin_transaction")
        /\ conn.txn = OpenAfter(EngLog, Len(EngLog)) \/ db = "closed"

\* C14 witness: small_inserts_after_big_delete completed: the seeding
\* transaction of db_create_table, then the scenario's own transaction.
C14_Witness ==
    /\ Returned
    /\ test_num = 15
    /\ ~AnyFailure
    /\ Cardinality({k \in 1..Len(EngLog) : IsExec(EngLog[k], "BEGIN")}) = 2
    /\ Cardinality({k \in 1..Len(EngLog) : IsExec(EngLog[k], "COMMIT")}) = 2

\* C14, test_insert without a transaction: case 1 completed with no BEGIN and
\* no COMMIT.
C14_WitnessNoTransaction ==
    /\ Returned
    /\ test_num = 1
    /\ ~AnyFailure
    /\ \A k \in 1..Len(EngLog) : EngLog[k].sql \notin {"BEGIN", "COMMIT"}

\* The sixteen named entries of the case table.
NamedCases == {test_cases[i] : i \in 1..NCases}

\* C15, as claimed: for every test_num exec_test is called with, values that
\* end in the default branch included, the read
\* test_cases[test_num - 1].case_name uses an index in 0..15, so tag_base is
\* the name of one of the sixteen cases.
C15_CaseTableReadInBounds ==
    phase \in {"running", "returned", "aborted"} =>
        /\ test_num - 1 \in 0..(NCases - 1)
        /\ tag_base \in NamedCases

IsLetterOrSpace(ch) ==
    ch \in {" ", "a", "b", "c", "d", "e", "f", "g", "h", "i", "j", "k", "l", "m", "n",
            "o", "p", "q", "r", "s", "t", "u", "v", "w", "x", "y", "z"}

OnlyLettersAndSpaces(text) ==
    \A i \in 1..Len(text) : IsLetterOrSpace(SubSeq(text, i, i))

NoFiftySubstring(text) ==
    \A i \in 1..(Len(text) - 1) : SubSeq(text, i, i + 1) # "50"

\* C16: in test_delete without index the measured DELETE ... LIKE '%50%'
\* removes no row, because every c that db_create_table wrote is digit-words
\* and spaces and holds no "50": t1 has all its rows after the measured
\* region; with index the measured DELETE removes exactly the rows with
\* 10 < a < 20000.
C16_DeleteVariants ==
    result.fn = "test_delete" =>
        /\ result.ok
        /\ Len(result.before) = Len(KeysBelow(call.table_size))
        /\ \A i \in 1..Len(result.before) :
              /\ result.before[i].a = KeysBelow(call.table_size)[i]
              /\ OnlyLettersAndSpaces(result.before[i].c)
              /\ NoFiftySubstring(result.before[i].c)
        /\ IF call.with_index
           THEN result.after =
                    SelectSeq(result.before, LAMBDA r : ~(10 < r.a /\ r.a < 20000))
           ELSE result.after = result.before

\* C16 witness: on a table of 25000 rows whose texts hold "five zero", the
\* unindexed variant kept every row.
C16_Witness ==
    /\ result.fn = "test_delete"
    /\ ~call.with_index
    /\ call.table_size = 25000
    /\ result.sql = "DELETE FROM t1 WHERE c LIKE '%50%';"
    /\ \E i \in 1..Len(result.before) : result.before[i].a > 20000
    /\ \A i \in 1..Len(result.before) : Contains(result.before[i].c, "five zero")
    /\ result.after = result.before

\* C16, the indexed variant: on a table of 25000 rows the rows with keys 11
\* and 19999 went and those with keys 10 and 20000 stayed.
C16_WitnessIndexed ==
    /\ result.fn = "test_delete"
    /\ call.with_index
    /\ call.table_size = 25000
    /\ {result.after[i].a : i \in 1..Len(result.after)} = {0, 1, 2, 10, 20000, 24999}

=============================================================================
